---------------------------- MODULE Spec2Model ----------------------------
(***************************************************************************)
(* A model of src/PublishItemCards.py: the walk of the SDG taxonomy        *)
(* (process_sdg_information), the publication of one series (publish_csv), *)
(* the catalog search (find_online_item), the tag lookup                   *)
(* (get_series_tags), and the remote catalog they act on.                  *)
(*                                                                         *)
(* Python strings are sequences of tokens; + is \o.  Codes and release     *)
(* versions are written token by token ("1", ".", "1"), so that int() and  *)
(* str.replace('.', '') are computed on them; the literals of the source   *)
(* are one token each.                                                     *)
(***************************************************************************)
EXTENDS Integers, Sequences, FiniteSets, TLC

(* ------------------------------ bounds -------------------------------- *)

\* goals of the taxonomy document
NumGoals == 2
\* series under each indicator
NumSeries == 2
\* calls to the remote catalog that fail during the life of the process
MaxFaults == 1

\* every goal has two targets, every target one indicator
TargetIds == {1, 2}
IndicatorIds == {1}
SeriesIds == 1..NumSeries

(* --------------------------- Python values ---------------------------- *)

DigitChars == <<"0", "1", "2", "3", "4", "5", "6", "7", "8", "9">>

D(n) == DigitChars[n + 1]

IsDigit(c) == \E n \in 1..10 : DigitChars[n] = c

DigitVal(c) == (CHOOSE n \in 1..10 : DigitChars[n] = c) - 1

RECURSIVE DecimalValue(_)
DecimalValue(s) ==
    IF s = <<>> THEN 0
    ELSE 10 * DecimalValue(SubSeq(s, 1, Len(s) - 1)) + DigitVal(s[Len(s)])

\* int(s) of a string: its value, or ValueError when s is not a numeral
PyInt(s) ==
    IF s # <<>> /\ \A k \in 1..Len(s) : IsDigit(s[k])
    THEN [ok |-> TRUE, v |-> DecimalValue(s)]
    ELSE [ok |-> FALSE, v |-> 0]

\* an argument of process_sdg_information: None, an int or a str
PyNone == [k |-> "none", i |-> 0, s |-> <<>>]
PyI(n) == [k |-> "int", i |-> n, s |-> <<>>]
PyS(str) == [k |-> "str", i |-> 0, s |-> str]

\* x is not None
IsNotNone(x) == x.k # "none"

\* truth value of x in a condition
Truthy(x) ==
    CASE x.k = "none" -> FALSE
      [] x.k = "int" -> x.i # 0
      [] OTHER -> x.s # <<>>

\* int_value != x : an int never equals a str or None
IntNe(n, x) == ~(x.k = "int" /\ x.i = n)

\* string == x
StrEq(str, x) == x.k = "str" /\ x.s = str

RECURSIVE Remove(_, _)
\* s.replace(c, '')
Remove(s, c) ==
    IF s = <<>> THEN <<>>
    ELSE IF Head(s) = c THEN Remove(Tail(s), c)
    ELSE <<Head(s)>> \o Remove(Tail(s), c)

(* ------------------------ the taxonomy document ----------------------- *)

GoalCode(g) == <<D(g)>>
TargetCode(g, t) == <<D(g), ".", D(t)>>
IndicatorCode(g, t, i) == <<D(g), ".", D(t), ".", D(i)>>
SeriesCode(g, t, i, s) == <<"SI_", D(g), D(t), D(i), D(s)>>

\* the last series of the second goal comes without a description
SeriesDescription(g, t, i, s) ==
    IF g = 2 /\ s = NumSeries THEN <<>> ELSE <<"about ", D(g), D(t), D(i), D(s)>>

Release == <<"2020", ".", "1">>

json_data ==
    [g \in 1..NumGoals |->
      [code |-> GoalCode(g),
       targets |->
         [t \in TargetIds |->
           [code |-> TargetCode(g, t),
            indicators |->
              [i \in IndicatorIds |->
                [code |-> IndicatorCode(g, t, i),
                 series |->
                   [s \in SeriesIds |->
                     [code |-> SeriesCode(g, t, i, s),
                      description |-> SeriesDescription(g, t, i, s),
                      release |-> Release]]]]]]]]

\* the positions of the series in the document
AllSeries ==
    {<<g, t, i, s>> : g \in 1..NumGoals, t \in TargetIds, i \in IndicatorIds,
                      s \in SeriesIds}

(* ---------------------- the display metadata document ----------------- *)

\* the keyword tags the document gives the first series of every indicator;
\* the second one repeats the goal tag
KeywordTags(g, t, i, s) == <<<<"kw ", D(g), D(t), D(i), D(s)>>, <<"SDG ", D(g)>>>>

IconUrl(g) == <<"icon ", D(g)>>

\* a complete record of goal g
FullRecord(g) ==
    [goal |-> g,
     icon_url_sq |-> IconUrl(g),
     targets |->
       [t \in TargetIds |->
         [target |-> TargetCode(g, t),
          indicators |->
            [i \in IndicatorIds |->
              [indicator |-> IndicatorCode(g, t, i),
               series |->
                 <<[series |-> SeriesCode(g, t, i, 1),
                    tags |-> KeywordTags(g, t, i, 1)]>>]]]]]

\* a record of goal g with neither an icon nor targets
BareRecord(g) == [goal |-> g]

RECURSIVE RecordsFrom(_, _, _)
\* the records of goals g..NumGoals, the record of goal k left out or bare
RecordsFrom(g, k, how) ==
    IF g > NumGoals THEN <<>>
    ELSE (IF g # k THEN <<FullRecord(g)>>
          ELSE IF how = "bare" THEN <<BareRecord(g)>>
          ELSE <<>>) \o RecordsFrom(g + 1, k, how)

\* the documents the metadata URL may hold: complete, or with the record of
\* one goal left out or bare; or the URL cannot be read
CompleteDoc == [goal |-> 0, how |-> "full"]
Unreachable == [goal |-> 0, how |-> "unreachable"]
MetadataDocs ==
    {CompleteDoc, Unreachable}
      \cup {[goal |-> k, how |-> how] : k \in 1..NumGoals, how \in {"absent", "bare"}}

\* the records of document doc
Records(doc) == RecordsFrom(1, doc.goal, doc.how)

FirstOf(S) == CHOOSE x \in S : \A y \in S : x <= y

\* get_series_tags: the tags of the first entry that matches the three codes,
\* [] when there is none or when the walk of the record raises
get_series_tags(goal_metadata, indicator_code, target_code, series_code) ==
    IF "targets" \notin DOMAIN goal_metadata THEN <<>>
    ELSE
      LET T == {a \in DOMAIN goal_metadata.targets :
                  /\ goal_metadata.targets[a].target = target_code
                  /\ \E b \in DOMAIN goal_metadata.targets[a].indicators :
                       /\ goal_metadata.targets[a].indicators[b].indicator = indicator_code
                       /\ \E c \in DOMAIN goal_metadata.targets[a].indicators[b].series :
                            goal_metadata.targets[a].indicators[b].series[c].series
                              = series_code}
      IN IF T = {} THEN <<>>
         ELSE
           LET inds == goal_metadata.targets[FirstOf(T)].indicators
               I == {b \in DOMAIN inds :
                       /\ inds[b].indicator = indicator_code
                       /\ \E c \in DOMAIN inds[b].series :
                            inds[b].series[c].series = series_code}
               sers == inds[FirstOf(I)].series
               S == {c \in DOMAIN sers : sers[c].series = series_code}
           IN sers[FirstOf(S)].tags

DefaultThumbnail == <<"http://undesa.maps.arcgis.com/sharing/rest/content/items/aaa0678dba0a466e8efef6b9f11775fe/data">>

(* ------------------------------- state -------------------------------- *)

VARIABLES
    pc,                \* where process_sdg_information stands: "idle", the loop
                       \* about to take its next element ("goal", "target",
                       \* "indicator", "series"), or "done"
    run,               \* calls of process_sdg_information so far
    again,             \* whether the process makes the call a second time
    outcome,           \* how the last call ended: "returned" (the walk ran to
                       \* its end), "handler" (return of line 241), "outer"
                       \* (except of line 243)
    args,              \* the arguments the process calls it with
    g, t, i, s,        \* the positions of the four for loops
    sdg_metadata,      \* local of the call: get_metadata()'s result, "None" or
                       \* "list" (the records of metadata_doc)
    goal_metadata,     \* local of the call: 0 while unbound, else the position
                       \* in sdg_metadata of the record it refers to
    thumbnail,         \* local of the call
    item_properties,   \* local of the call: the item card of the series at hand
    described,         \* series whose description line 199 has overwritten
    catalog,           \* the items of the remote catalog, by id
    group_tags,        \* open_data_group["tags"]
    failed_series,     \* the module's failure ledger
    log,               \* the calls made to the remote catalog service
    printed,           \* the series codes printed by line 214
    faults,            \* calls to the remote catalog that have failed so far
    budget,            \* how many of them fail during the life of the process
    metadata_doc,      \* which document is behind metadata_url
    pre                \* whether the catalog held items before the first call

vars == <<pc, run, again, outcome, args, g, t, i, s, sdg_metadata, goal_metadata,
          thumbnail, item_properties, described, catalog, group_tags, failed_series, log,
          printed, faults, budget, metadata_doc, pre>>

(* ------------------------- the remote catalog ------------------------- *)

\* the remote calls a series step makes, each of which may fail
FaultSites ==
    {"search", "add", "analyze", "csv_update", "search2", "move", "update",
     "move2", "share", "group_update"}

RECURSIVE FaultSets(_)
\* the sets of at most n calls
FaultSets(n) ==
    IF n = 0 THEN {{}}
    ELSE LET smaller == FaultSets(n - 1)
         IN smaller \cup {F \cup {site} : F \in smaller, site \in FaultSites}

Called(op, key, ok) == [op |-> op, key |-> key, ok |-> ok]

\* the failed calls among those made after the first n
FailuresAfter(n, lg) == Cardinality({k \in (n + 1)..Len(lg) : ~lg[k].ok})

NoFolder == <<>>
OpenDataFolder == <<"Open Data">>

\* find_online_item without the comparison of line 317: the first result of
\* the search, whatever its title
find_first_result(cat, title, fails) ==
    LET hits == {id \in DOMAIN cat : cat[id].title = title}
    IN IF fails \/ cat = <<>> THEN 0
       ELSE IF hits = {} THEN 1
       ELSE FirstOf(hits)

\* content.search followed by the exact-title filter: the id of the first item
\* titled title, 0 (None) when there is none or when the search raises
find_online_item(cat, title, fails) ==
    LET hits == {id \in DOMAIN cat : cat[id].title = title}
    IN IF fails \/ hits = {} THEN 0 ELSE FirstOf(hits)

\* content.add: a new item in the root folder
AddedItem(props, thumb) ==
    [title |-> props.title, type |-> props.type, tags |-> props.tags,
     thumbnail |-> thumb, ownerFolder |-> NoFolder, shared |-> FALSE, rev |-> 0]

\* item.update(item_properties, thumbnail[, data])
UpdatedItem(item, props, thumb) ==
    [item EXCEPT !.title = props.title, !.tags = props.tags,
                 !.thumbnail = thumb, !.rev = item.rev + 1]

\* item.move("Open Data")
MovedItem(item) == [item EXCEPT !.ownerFolder = OpenDataFolder]

\* item.share(everyone=True, org=True, groups=..., allow_members_to_edit=False)
SharedItem(item) == [item EXCEPT !.shared = TRUE]

(* ---------------------------- publish_csv ----------------------------- *)

DataDir == <<"FIS4SDGs/csv/">>

FilePath(code) == DataDir \o code \o <<"_cube.pivot.csv">>

\* the local files: every series has one but the last series of the first
\* target of the last goal, which the walk reaches before that goal's last
\* target
MissingFiles == {FilePath(SeriesCode(NumGoals, 1, 1, NumSeries))}

\* os.path.isfile(file) on a disk that has the file of every series
file_always_present(file) == TRUE

\* os.path.isfile(file)
isfile(file) == file \notin MissingFiles

SeriesTitle(series) == series.code \o <<"_">> \o Remove(series.release, ".")

Returned(ret, cat, lg, fs) ==
    [ret |-> ret, catalog |-> cat, log |-> lg, failed_series |-> fs]

\* lines 347-365: the CSV item was not found
PublishNew(cat, lg, fs, series, csv_item_properties, thumb, F) ==
    IF "add" \in F
    THEN \* content.add raises (line 392) or returns None (line 351)
         Returned(0, cat, Append(lg, Called("add", csv_item_properties.title, FALSE)), fs)
    ELSE
      LET cat1 == Append(cat, AddedItem(csv_item_properties, thumb))
          lg1 == Append(lg, Called("add", csv_item_properties.title, TRUE))
      IN IF "analyze" \in F
         THEN \* analyze_csv returns None: lines 357-359
              Returned(0, cat1,
                       Append(lg1, Called("analyze", csv_item_properties.title, FALSE)),
                       Append(fs, series.code))
         ELSE \* line 362 names publishParameters, which is not defined: the
              \* NameError is caught at line 392 and csv_item.publish is
              \* never reached
              Returned(0, cat1,
                       Append(lg1, Called("analyze", csv_item_properties.title, TRUE)),
                       fs)

\* lines 374-389, with csv_lyr found
FileAndUpdate(cat, lg, fs, csv_item, csv_lyr, properties, thumb, F) ==
    LET moveCsv == cat[csv_item].ownerFolder = NoFolder
        cat1 == IF moveCsv THEN [cat EXCEPT ![csv_item] = MovedItem(@)] ELSE cat
        lg1 == IF moveCsv
               THEN Append(lg, Called("move", cat[csv_item].title, "move" \notin F))
               ELSE lg
    IN IF moveCsv /\ "move" \in F THEN Returned(0, cat, lg1, fs)
       ELSE IF "update" \in F
       THEN Returned(0, cat1, Append(lg1, Called("update", properties.title, FALSE)), fs)
       ELSE
         LET cat2 == [cat1 EXCEPT ![csv_lyr] = UpdatedItem(@, properties, thumb)]
             lg2 == Append(lg1, Called("update", properties.title, TRUE))
             moveLyr == cat2[csv_lyr].ownerFolder = NoFolder
         IN IF ~moveLyr THEN Returned(csv_lyr, cat2, lg2, fs)
            ELSE IF "move2" \in F
            THEN Returned(0, cat2, Append(lg2, Called("move", properties.title, FALSE)), fs)
            ELSE Returned(csv_lyr, [cat2 EXCEPT ![csv_lyr] = MovedItem(@)],
                          Append(lg2, Called("move", properties.title, TRUE)), fs)

\* lines 366-389: the CSV item was found
PublishExisting(cat, lg, fs, csv_item, csv_item_properties, properties, thumb, F) ==
    IF "csv_update" \in F
    THEN Returned(0, cat, Append(lg, Called("update", csv_item_properties.title, FALSE)), fs)
    ELSE
      LET cat1 == [cat EXCEPT ![csv_item] = UpdatedItem(@, csv_item_properties, thumb)]
          lg1 == Append(lg, Called("update", csv_item_properties.title, TRUE))
          csv_lyr == find_online_item(cat1, properties.title, "search2" \in F)
          lg2 == Append(lg1, Called("search", properties.title, "search2" \notin F))
      IN IF csv_lyr = 0 THEN Returned(0, cat1, lg2, fs)
         ELSE FileAndUpdate(cat1, lg2, fs, csv_item, csv_lyr, properties, thumb, F)

\* publish_csv: the id of the feature service item, or 0 (None); it raises nothing
publish_csv(cat, lg, fs, series, properties, thumb, F) ==
    LET csv_item_properties ==
          [title |-> SeriesTitle(series), tags |-> properties.tags, type |-> "CSV"]
    IN IF ~isfile(FilePath(series.code)) THEN Returned(0, cat, lg, fs)
       ELSE
         LET csv_item == find_online_item(cat, csv_item_properties.title, "search" \in F)
             lg1 == Append(lg, Called("search", csv_item_properties.title, "search" \notin F))
         IN IF csv_item = 0
            THEN PublishNew(cat, lg1, fs, series, csv_item_properties, thumb, F)
            ELSE PublishExisting(cat, lg1, fs, csv_item, csv_item_properties,
                                 properties, thumb, F)

(* ---------------------- process_sdg_information ------------------------ *)

\* the arguments a call is made with
Arguments ==
    [goal_code : {PyNone, PyI(1), PyS(GoalCode(1))},
     target_code : {PyNone, PyS(TargetCode(1, 1))},
     indicator_code : {PyNone, PyS(IndicatorCode(1, 1, 1))},
     series_code : {PyNone, PyS(SeriesCode(1, 1, 1, 1))},
     property_update_only : BOOLEAN]

\* series["description"] as the call finds it
Description(p) ==
    IF p \in described THEN SeriesCode(p[1], p[2], p[3], p[4])
    ELSE json_data[p[1]].targets[p[2]].indicators[p[3]].series[p[4]].description

GoalTag(goal) == <<"SDG ">> \o goal.code
TargetTag(target) == <<"Target ">> \o target.code
IndicatorName(indicator) == <<"Indicator ">> \o indicator.code

\* line 196
ItemTitle(indicator, series, description) ==
    IndicatorName(indicator) \o <<" (">> \o series.code \o <<"): ">> \o description

\* lines 205-210 with the tags kept as a set: a keyword tag that repeats one
\* of the first three is dropped
FinalTagsDeduplicated(goal, target, indicator, series, md) ==
    LET first == <<GoalTag(goal), TargetTag(target), IndicatorName(indicator)>>
    IN first
         \o SelectSeq(get_series_tags(md, indicator.code, target.code, series.code),
                      LAMBDA tag : \A k \in DOMAIN first : first[k] # tag)
         \o <<series.release>>

\* lines 205-210
FinalTags(goal, target, indicator, series, md) ==
    <<GoalTag(goal), TargetTag(target), IndicatorName(indicator)>>
      \o get_series_tags(md, indicator.code, target.code, series.code)
      \o <<series.release>>

\* line 128: the goal is skipped
GoalSkipped(goal, goal_code) ==
    IsNotNone(goal_code) /\ IntNe(PyInt(goal.code).v, goal_code)

\* line 157: the target is skipped
TargetSkipped(target, target_code) ==
    IsNotNone(target_code) /\ IntNe(PyInt(target.code).v, target_code)

\* line 167: the indicator is skipped
IndicatorSkipped(indicator, indicator_code) ==
    Truthy(indicator_code) /\ ~StrEq(indicator.code, indicator_code)

\* line 191: the series is skipped
SeriesSkipped(series, indicator_code, series_code) ==
    Truthy(indicator_code)
      /\ ~(StrEq(series.code, series_code) \/ ~IsNotNone(series_code))

\* lines 132-135: the record goal_metadata refers to after the search loop
LookedUp(list, goal, before) ==
    LET hits == {k \in DOMAIN list : list[k].goal = PyInt(goal.code).v}
    IN IF hits = {} THEN before ELSE FirstOf(hits)

\* lines 141-144
Thumbnail(record) ==
    IF "icon_url_sq" \in DOMAIN record THEN record.icon_url_sq ELSE DefaultThumbnail

\* the except of line 243
Abort ==
    /\ pc' = "done"
    /\ outcome' = "outer"

\* get_metadata: the document, or None when the fetch or the parse fails
get_metadata(doc) == IF doc = Unreachable THEN "None" ELSE "list"

\* the records sdg_metadata holds
MetadataList == IF sdg_metadata = "None" THEN <<>> ELSE Records(metadata_doc)

NoProperties == [title |-> <<>>, tags |-> <<>>]

Enter ==
    /\ run' = run + 1
    /\ sdg_metadata' = get_metadata(metadata_doc)
    /\ goal_metadata' = 0
    /\ thumbnail' = <<>>
    /\ item_properties' = NoProperties
    /\ pc' = "goal"
    /\ outcome' = "running"
    /\ g' = 1
    /\ UNCHANGED <<again, args, t, i, s, described, catalog, group_tags,
                   failed_series, log, printed, faults, budget, metadata_doc, pre>>

\* the process calls process_sdg_information(...)
Call ==
    /\ pc = "idle"
    /\ Enter

\* the process makes the same call once more
CallAgain ==
    /\ pc = "done"
    /\ again
    /\ run = 1
    /\ Enter

\* lines 126-152: the for loop over the goals takes its next element
GoalStep ==
    /\ pc = "goal"
    /\ UNCHANGED <<run, again, args, i, s, sdg_metadata, item_properties, described, catalog,
                   group_tags, failed_series, log, printed, faults, budget,
                   metadata_doc, pre>>
    /\ IF g > NumGoals
       THEN /\ pc' = "done"
            /\ outcome' = "returned"
            /\ UNCHANGED <<g, t, goal_metadata, thumbnail>>
       ELSE
         LET goal == json_data[g]
             found == LookedUp(MetadataList, goal, goal_metadata)
         IN IF IsNotNone(args.goal_code) /\ ~PyInt(goal.code).ok
            THEN \* int() raises ValueError
                 Abort /\ UNCHANGED <<g, t, goal_metadata, thumbnail>>
            ELSE IF GoalSkipped(goal, args.goal_code)
            THEN /\ g' = g + 1
                 /\ UNCHANGED <<pc, outcome, t, goal_metadata, thumbnail>>
            ELSE IF sdg_metadata = "None"
            THEN \* line 132 iterates None: TypeError
                 Abort /\ UNCHANGED <<g, t, goal_metadata, thumbnail>>
            ELSE IF found = 0
            THEN \* line 137 reads goal_metadata, never assigned: UnboundLocalError
                 Abort /\ UNCHANGED <<g, t, goal_metadata, thumbnail>>
            ELSE /\ goal_metadata' = found
                 /\ thumbnail' = Thumbnail(MetadataList[found])
                 /\ pc' = "target"
                 /\ t' = 1
                 /\ UNCHANGED <<g, outcome>>

\* the group update with the tags kept as a set
GroupUpdateDeduplicated(tags, new, fails) ==
    IF fails \/ \E k \in DOMAIN tags : tags[k] = new[1] THEN tags ELSE tags \o new

\* open_data_group.update(tags=open_data_group["tags"] + tags)
GroupUpdate(tags, new, fails) == IF fails THEN tags ELSE tags \o new

\* lines 155-162: the for loop over the targets takes its next element
TargetStep ==
    /\ pc = "target"
    /\ UNCHANGED <<run, again, args, s, sdg_metadata, goal_metadata, thumbnail,
                   item_properties, described, catalog, failed_series, printed, budget,
                   metadata_doc, pre>>
    /\ IF t > Len(json_data[g].targets)
       THEN /\ pc' = "goal"
            /\ g' = g + 1
            /\ UNCHANGED <<outcome, t, i, group_tags, log, faults>>
       ELSE
         LET target == json_data[g].targets[t]
         IN IF IsNotNone(args.target_code) /\ ~PyInt(target.code).ok
            THEN \* int() of a code such as "1.1" raises ValueError
                 Abort /\ UNCHANGED <<g, t, i, group_tags, log, faults>>
            ELSE IF TargetSkipped(target, args.target_code)
            THEN /\ t' = t + 1
                 /\ UNCHANGED <<pc, outcome, g, i, group_tags, log, faults>>
            ELSE \E fails \in BOOLEAN :
                   /\ fails => faults < budget
                   /\ group_tags' = GroupUpdate(group_tags, <<TargetTag(target)>>, fails)
                   /\ log' = Append(log, Called("group_update", TargetTag(target), ~fails))
                   /\ faults' = IF fails THEN faults + 1 ELSE faults
                   /\ IF fails THEN Abort /\ UNCHANGED <<g, t, i>>
                      ELSE /\ pc' = "indicator"
                           /\ i' = 1
                           /\ UNCHANGED <<outcome, g, t>>

\* lines 165-186: the for loop over the indicators takes its next element
IndicatorStep ==
    /\ pc = "indicator"
    /\ UNCHANGED <<run, again, args, g, sdg_metadata, goal_metadata, thumbnail,
                   item_properties, described, catalog, failed_series, printed, budget,
                   metadata_doc, pre>>
    /\ IF i > Len(json_data[g].targets[t].indicators)
       THEN /\ pc' = "target"
            /\ t' = t + 1
            /\ UNCHANGED <<outcome, i, s, group_tags, log, faults>>
       ELSE
         LET indicator == json_data[g].targets[t].indicators[i]
         IN IF IndicatorSkipped(indicator, args.indicator_code)
            THEN /\ i' = i + 1
                 /\ UNCHANGED <<pc, outcome, t, s, group_tags, log, faults>>
            ELSE \E fails \in BOOLEAN :
                   /\ fails => faults < budget
                   /\ group_tags' =
                        GroupUpdate(group_tags, <<IndicatorName(indicator)>>, fails)
                   /\ log' = Append(log, Called("group_update",
                                                IndicatorName(indicator), ~fails))
                   /\ faults' = IF fails THEN faults + 1 ELSE faults
                   /\ IF fails THEN Abort /\ UNCHANGED <<t, i, s>>
                      ELSE /\ pc' = "series"
                           /\ s' = 1
                           /\ UNCHANGED <<outcome, t, i>>

(* ------------------- lines 215-241: one series ------------------------ *)

Handled(raised, cat, lg, fs, tags) ==
    [raised |-> raised, catalog |-> cat, log |-> lg, failed_series |-> fs,
     group_tags |-> tags]

\* lines 237-241 without the return of line 241
ExceptContinues(cat, lg, fs, tags, series) ==
    Handled(FALSE, cat, lg, Append(fs, series.code), tags)

\* lines 237-241: the exception is logged, the series recorded, and the
\* function returns
Except(cat, lg, fs, tags, series) ==
    Handled(TRUE, cat, lg, Append(fs, series.code), tags)

\* lines 228-236
ShareAndTag(online_item, cat, lg, fs, tags, series, F) ==
    IF online_item = 0 THEN Handled(FALSE, cat, lg, Append(fs, series.code), tags)
    ELSE IF "share" \in F
    THEN Except(cat, Append(lg, Called("share", cat[online_item].title, FALSE)),
                fs, tags, series)
    ELSE
      LET cat1 == [cat EXCEPT ![online_item] = SharedItem(@)]
          lg1 == Append(lg, Called("share", cat[online_item].title, TRUE))
          fails == "group_update" \in F
          lg2 == Append(lg1, Called("group_update", series.code, ~fails))
      IN IF fails THEN Except(cat1, lg2, fs, tags, series)
         ELSE Handled(FALSE, cat1, lg2, fs, GroupUpdate(tags, <<series.code>>, FALSE))

\* lines 216-222: property_update_only
UpdateOnly(cat, lg, fs, tags, series, properties, thumb, F) ==
    LET online_item == find_online_item(cat, properties.title, "search" \in F)
        lg1 == Append(lg, Called("search", properties.title, "search" \notin F))
    IN IF online_item = 0
       THEN ShareAndTag(0, cat, lg1, Append(fs, series.code), tags, series, F)
       ELSE IF "update" \in F
       THEN Except(cat, Append(lg1, Called("update", properties.title, FALSE)),
                   fs, tags, series)
       ELSE ShareAndTag(online_item,
                        [cat EXCEPT ![online_item] = UpdatedItem(@, properties, thumb)],
                        Append(lg1, Called("update", properties.title, TRUE)),
                        fs, tags, series, F)

\* lines 223-226 with a publish_csv that lets its exception through
FullPublishRaises(cat, lg, fs, tags, series, properties, thumb, F) ==
    LET r == publish_csv(cat, lg, fs, series, properties, thumb, F)
    IN IF r.ret = 0 /\ FailuresAfter(Len(lg), r.log) > 0
       THEN Except(r.catalog, r.log, r.failed_series, tags, series)
       ELSE ShareAndTag(r.ret, r.catalog, r.log, r.failed_series, tags, series, F)

\* lines 223-226: the data is published
FullPublish(cat, lg, fs, tags, series, properties, thumb, F) ==
    LET r == publish_csv(cat, lg, fs, series, properties, thumb, F)
    IN ShareAndTag(r.ret, r.catalog, r.log, r.failed_series, tags, series, F)

\* lines 215-241
ProcessSeries(cat, lg, fs, tags, series, properties, thumb, update_only, F) ==
    IF update_only
    THEN UpdateOnly(cat, lg, fs, tags, series, properties, thumb, F)
    ELSE FullPublish(cat, lg, fs, tags, series, properties, thumb, F)

\* lines 189-241: the for loop over the series takes its next element
SeriesStep ==
    /\ pc = "series"
    /\ UNCHANGED <<run, again, args, g, t, sdg_metadata, goal_metadata,
                   thumbnail, budget, metadata_doc, pre>>
    /\ IF s > Len(json_data[g].targets[t].indicators[i].series)
       THEN /\ pc' = "indicator"
            /\ i' = i + 1
            /\ UNCHANGED <<outcome, s, item_properties, described, catalog,
                           group_tags, failed_series, log, printed, faults>>
       ELSE
         LET goal == json_data[g]
             target == goal.targets[t]
             indicator == target.indicators[i]
             series == indicator.series[s]
         IN IF SeriesSkipped(series, args.indicator_code, args.series_code)
            THEN /\ s' = s + 1
                 /\ UNCHANGED <<pc, outcome, i, item_properties, described, catalog,
                                group_tags, failed_series, log, printed, faults>>
            ELSE \E F \in FaultSets(budget - faults) :
                   LET properties ==
                         [title |-> ItemTitle(indicator, series, Description(<<g, t, i, s>>)),
                          tags |-> FinalTags(goal, target, indicator, series,
                                             MetadataList[goal_metadata])]
                       r == ProcessSeries(catalog, log, failed_series, group_tags,
                                          series, properties, thumbnail,
                                          args.property_update_only, F)
                       failed == FailuresAfter(Len(log), r.log)
                   IN /\ Cardinality(F) = failed
                      /\ faults' = faults + failed
                      /\ item_properties' = properties
                      /\ described' = IF Description(<<g, t, i, s>>) = <<>>
                                      THEN described \cup {<<g, t, i, s>>}
                                      ELSE described
                      /\ printed' = Append(printed, series.code)
                      /\ catalog' = r.catalog
                      /\ log' = r.log
                      /\ failed_series' = r.failed_series
                      /\ group_tags' = r.group_tags
                      /\ IF r.raised
                         THEN /\ pc' = "done"
                              /\ outcome' = "handler"
                              /\ UNCHANGED <<i, s>>
                         ELSE /\ s' = s + 1
                              /\ UNCHANGED <<pc, outcome, i>>

(* ------------------------------ behaviours ---------------------------- *)

RECURSIVE Flat(_)
Flat(ss) == IF ss = <<>> THEN <<>> ELSE Head(ss) \o Flat(Tail(ss))

\* what an earlier, complete publication of the first series of an indicator
\* left in the catalog: its CSV item and its feature service item
Published(gg, tt, ii) ==
    LET indicator == json_data[gg].targets[tt].indicators[ii]
        series == indicator.series[1]
    IN <<[title |-> SeriesTitle(series), type |-> "CSV", tags |-> <<>>,
          thumbnail |-> <<>>, ownerFolder |-> NoFolder, shared |-> FALSE, rev |-> 0],
         [title |-> ItemTitle(indicator, series, series.description),
          type |-> "Feature Service", tags |-> <<>>, thumbnail |-> <<>>,
          ownerFolder |-> IF gg = 1 THEN NoFolder ELSE OpenDataFolder,
          shared |-> FALSE, rev |-> 0]>>

PublishedBefore ==
    Flat([gg \in 1..NumGoals |->
           Flat([tt \in TargetIds |->
                  Flat([ii \in IndicatorIds |-> Published(gg, tt, ii)])])])

\* the calls that set no filter
Unfiltered ==
    {a \in Arguments : /\ a.goal_code = PyNone /\ a.target_code = PyNone
                       /\ a.indicator_code = PyNone /\ a.series_code = PyNone}

\* The process calls with any arguments, whatever the metadata document is,
\* when no call to the catalog fails and it calls once; calls to the catalog
\* fail in a process that walks the whole taxonomy once, with the complete
\* metadata document; the process that calls twice walks the whole taxonomy.
Init ==
    /\ pc = "idle"
    /\ run = 0
    /\ outcome = "none"
    /\ args \in Arguments
    /\ budget \in {0, MaxFaults}
    /\ again \in BOOLEAN
    /\ metadata_doc \in MetadataDocs
    /\ (budget > 0 \/ again) =>
         /\ ~(budget > 0 /\ again)
         /\ args \in Unfiltered
         /\ metadata_doc = CompleteDoc
    /\ g = 1 /\ t = 1 /\ i = 1 /\ s = 1
    /\ sdg_metadata = "None"
    /\ goal_metadata = 0
    /\ thumbnail = <<>>
    /\ item_properties = NoProperties
    /\ described = {}
    /\ pre \in BOOLEAN
    /\ catalog = IF pre THEN PublishedBefore ELSE <<>>
    /\ group_tags = <<<<"Open Data">>>>
    /\ failed_series = <<>>
    /\ log = <<>>
    /\ printed = <<>>
    /\ faults = 0

Next == Call \/ CallAgain \/ GoalStep \/ TargetStep \/ IndicatorStep \/ SeriesStep

Spec == Init /\ [][Next]_vars

(* ------------------------------- claims ------------------------------- *)

Last(seq) == seq[Len(seq)]

Codes(seq) == {seq[k] : k \in DOMAIN seq}

Count(x, seq) == Cardinality({k \in DOMAIN seq : seq[k] = x})

CodeAt(p) == SeriesCode(p[1], p[2], p[3], p[4])

SeriesCodes == {CodeAt(p) : p \in AllSeries}

SeriesAt(p) == json_data[p[1]].targets[p[2]].indicators[p[3]].series[p[4]]

IndicatorAt(p) == json_data[p[1]].targets[p[2]].indicators[p[3]]

\* the title of the CSV item of the series at p
RawTitle(p) == CodeAt(p) \o <<"_", "2020", "1">>

\* the titles a call gives the feature service item of the series at p
ServiceTitles(p) ==
    {<<"Indicator ">> \o IndicatorAt(p).code \o <<" (">> \o CodeAt(p) \o <<"): ">> \o d :
       d \in {SeriesAt(p).description, CodeAt(p)}}

ItemsTitled(type, titles) ==
    {id \in DOMAIN catalog : catalog[id].type = type /\ catalog[id].title \in titles}

\* the calls the last step has added to the log
NewCalls == SubSeq(log', Len(log) + 1, Len(log'))

\* C1 (as claimed): after two full-publish calls in succession, from a
\* catalog with no item for it, every series that has its CSV file and was
\* processed by both calls has exactly one CSV item and exactly one feature
\* service item in the catalog.
C1_TwoFullRunsOneRawOneService ==
    (pc = "done" /\ run = 2 /\ ~args.property_update_only /\ ~pre) =>
      \A p \in AllSeries :
        (isfile(FilePath(CodeAt(p))) /\ Count(CodeAt(p), printed) = 2) =>
          /\ Cardinality(ItemsTitled("CSV", {RawTitle(p)})) = 1
          /\ Cardinality(ItemsTitled("Feature Service", ServiceTitles(p))) = 1

\* a failed call that raises into the handler of lines 237-241: the share,
\* the group update of a series, the item update of the metadata-only mode
HandlerFailure(e) ==
    /\ ~e.ok
    /\ \/ e.op = "share"
       \/ e.op = "group_update" /\ e.key \in SeriesCodes
       \/ e.op = "update" /\ args.property_update_only

\* C2: in either mode, when the item update, the share or the group update
\* of a series raises, that series' code is the last entry of failed_series,
\* the call has returned, and the failed call is the last remote call made.
C2_HandlerExceptionEndsWalk ==
    \A k \in DOMAIN log :
      HandlerFailure(log[k]) =>
        /\ k = Len(log)
        /\ pc = "done"
        /\ outcome = "handler"
        /\ printed # <<>> /\ failed_series # <<>>
        /\ Last(failed_series) = Last(printed)

\* C2, witness: the handler has ended a walk that had series left to process
C2_WalkCutShort ==
    /\ outcome = "handler"
    /\ Len(printed) < Cardinality(AllSeries)
    /\ \E k \in DOMAIN log : HandlerFailure(log[k])

\* a failed call of publish_csv that the claim C3 names
PublishFailure(e) == ~e.ok /\ e.op \in {"add", "analyze", "update"}

\* C3 (as claimed): in full-publish mode, once an add, analyze or update
\* call of publish_csv has failed, no further series is processed.
C3_PublishFailureEndsWalk ==
    [][(~args.property_update_only /\ \E k \in DOMAIN log : PublishFailure(log[k]))
         => printed' = printed]_vars

\* C3 (amended): in full-publish mode, the step in which an add, analyze or
\* update call of publish_csv fails records the series in failed_series and
\* goes on to the next series; the call does not return.
C3_PublishFailureRecordedWalkContinues ==
    [][(/\ ~args.property_update_only
        /\ pc = "series"
        /\ \E k \in DOMAIN NewCalls : PublishFailure(NewCalls[k]))
         => /\ Len(failed_series') > Len(failed_series)
            /\ Last(failed_series') = Last(printed')
            /\ Len(printed') = Len(printed) + 1
            /\ pc' = "series"
            /\ s' = s + 1
            /\ outcome' = "running"]_vars

\* C3, witness: a call of publish_csv has failed and the walk has made
\* further remote calls since
C3_WalkedOnAfterPublishFailure ==
    /\ ~args.property_update_only
    /\ outcome = "running"
    /\ \E k \in DOMAIN log : PublishFailure(log[k]) /\ k < Len(log)

\* C4: in metadata-only mode, the step that processes a series of which the
\* catalog holds no item by that exact title appends the series code to
\* failed_series (and nothing else), searches and makes no other remote
\* call, leaves the catalog and the group as they were, and goes on to the
\* next series.
C4_NotFoundRecordedNothingCreated ==
    [][(/\ pc = "series"
        /\ args.property_update_only
        /\ Len(printed') > Len(printed)
        /\ \A id \in DOMAIN catalog : catalog[id].title # item_properties'.title)
         => /\ catalog' = catalog
            /\ group_tags' = group_tags
            /\ Len(failed_series') > Len(failed_series)
            /\ SubSeq(failed_series', 1, Len(failed_series)) = failed_series
            /\ \A k \in (Len(failed_series) + 1)..Len(failed_series') :
                 failed_series'[k] = Last(printed')
            /\ \A k \in DOMAIN NewCalls : NewCalls[k].op = "search"
            /\ pc' = "series"
            /\ s' = s + 1
            /\ outcome' = "running"]_vars

\* C4, witness: a metadata-only walk has recorded a series it did not find
\* and stands at the next one
C4_NotFoundThenNext ==
    /\ args.property_update_only
    /\ pc = "series"
    /\ s > 1
    /\ faults = 0
    /\ failed_series # <<>>
    /\ Last(failed_series) = Last(printed)
    /\ \A id \in DOMAIN catalog : catalog[id].title # item_properties.title

\* C5 (as claimed): the call with goal_code='1' and no other filter
\* processes exactly the series of goal 1.
C5_StringGoalFilterSelectsGoalOne ==
    (/\ pc = "done"
     /\ args.goal_code = PyS(<<"1">>)
     /\ args.target_code = PyNone
     /\ args.indicator_code = PyNone
     /\ args.series_code = PyNone
     /\ metadata_doc = CompleteDoc)
      => Codes(printed) = {CodeAt(p) : p \in {q \in AllSeries : q[1] = 1}}

\* the series at p matches every filter of a that is set
Selected(p, a) ==
    /\ a.target_code = PyNone \/ a.target_code = PyS(TargetCode(p[1], p[2]))
    /\ a.indicator_code = PyNone
         \/ a.indicator_code = PyS(IndicatorCode(p[1], p[2], p[3]))
    /\ a.series_code = PyNone \/ a.series_code = PyS(CodeAt(p))

\* C6 (as claimed): with no goal filter, the call processes exactly the
\* series whose target, indicator and series codes equal the filters set.
C6_FiltersSelectMatchingSeries ==
    (pc = "done" /\ args.goal_code = PyNone /\ metadata_doc = CompleteDoc /\ budget = 0)
      => Codes(printed) = {CodeAt(p) : p \in {q \in AllSeries : Selected(q, args)}}

\* C7 (as claimed): when the metadata document has no record of a goal, the
\* walk is not aborted and the thumbnail used under that goal is the
\* fallback URL.
C7_MissingRecordUsesFallback ==
    (metadata_doc.how = "absent" /\ args \in Unfiltered /\ run = 1)
      => /\ outcome # "outer"
         /\ (pc \in {"target", "indicator", "series"} /\ g = metadata_doc.goal)
              => thumbnail = DefaultThumbnail

\* C8 (as claimed): when the metadata document cannot be loaded, the call
\* still walks the taxonomy and processes its series.
C8_UnreachableMetadataStillWalks ==
    (pc = "done" /\ metadata_doc = Unreachable /\ args \in Unfiltered)
      => /\ outcome = "returned"
         /\ Codes(printed) = SeriesCodes

\* the tags the metadata document holds for the series at p: it has an entry
\* for the first series of every indicator of a goal with a complete record
EntryTags(p) ==
    IF metadata_doc # Unreachable /\ metadata_doc.goal # p[1] /\ p[4] = 1
    THEN <<<<"kw ", D(p[1]), D(p[2]), D(p[3]), D(p[4])>>, <<"SDG ", D(p[1])>>>>
    ELSE <<>>

ExpectedTags(p) ==
    <<<<"SDG ", D(p[1])>>,
      <<"Target ", D(p[1]), ".", D(p[2])>>,
      <<"Indicator ", D(p[1]), ".", D(p[2]), ".", D(p[3])>>>>
      \o EntryTags(p) \o <<<<"2020", ".", "1">>>>

\* the position of the series a code names
PositionOf(code) ==
    <<DigitVal(code[2]), DigitVal(code[3]), DigitVal(code[4]), DigitVal(code[5])>>

\* the position of the series a catalog item belongs to: the title of a CSV
\* item starts with the series code, the title of a feature service item
\* holds it after the indicator name
PositionOfItem(item) ==
    IF item.type = "CSV" THEN PositionOf(SubSeq(item.title, 1, 5))
    ELSE PositionOf(SubSeq(item.title, 8, 12))

\* C9: the tags of the item card of the series processed last, and the tags
\* of every catalog item a call has written, are the goal tag, the target
\* tag, the indicator tag, the tags of the series' own metadata entry (none
\* without an entry) and the release version, in this order, duplicates kept.
C9_TagsInOrder ==
    /\ item_properties # NoProperties =>
         item_properties.tags = ExpectedTags(PositionOf(Last(printed)))
    /\ \A id \in DOMAIN catalog :
         catalog[id].tags # <<>> =>
           catalog[id].tags = ExpectedTags(PositionOfItem(catalog[id]))

\* C9, witness: a series with a metadata entry has been processed and its
\* item written with the six tags, the goal tag twice among them
C9_EntryTagsWritten ==
    /\ Len(item_properties.tags) = 6
    /\ Count(item_properties.tags[1], item_properties.tags) = 2
    /\ \E id \in DOMAIN catalog : catalog[id].tags = item_properties.tags

\* C10 (as claimed): the group's tags hold the code of every processed
\* series once for each time it was processed.
C10_OncePerProcessedSeries ==
    \A code \in SeriesCodes : Count(code, group_tags) = Count(code, printed)

\* C10 (amended): every step leaves the group's tags as they were or appends
\* one tag at the end: the target tag when the walk enters a target, the
\* indicator tag when it enters an indicator, the series code when the step
\* has shared the item of the series and the group update has not raised.
C10_GroupTagsAccrete ==
    [][CASE pc = "target" /\ pc' = "indicator" ->
              group_tags' = Append(group_tags, <<"Target ">> \o TargetCode(g, t))
         [] pc = "indicator" /\ pc' = "series" ->
              group_tags' = Append(group_tags, <<"Indicator ">> \o IndicatorCode(g, t, i))
         [] pc = "series" /\ Len(printed') > Len(printed) ->
              group_tags' =
                IF /\ \E k \in DOMAIN NewCalls : NewCalls[k].op = "share" /\ NewCalls[k].ok
                   /\ \A k \in DOMAIN NewCalls : NewCalls[k].op = "group_update" => NewCalls[k].ok
                THEN Append(group_tags, Last(printed'))
                ELSE group_tags
         [] OTHER -> group_tags' = group_tags]_vars

\* C10, witness: the group holds the code of a series that was shared, twice
\* the tag of a target walked twice, and not the code of a series that failed
C10_SharedTaggedFailedNot ==
    /\ \E k \in DOMAIN printed : Count(printed[k], group_tags) > 0
    /\ \E k \in DOMAIN printed : Count(printed[k], group_tags) = 0
    /\ Count(<<"Target ", "1", ".", "1">>, group_tags) = 2

\* the series the last step has processed has no local CSV file
StepWithoutFile ==
    /\ pc = "series"
    /\ Len(printed') > Len(printed)
    /\ FilePath(Last(printed')) \in MissingFiles

\* C11: in full-publish mode, the step that processes a series whose local
\* file <dataDir>/<seriesCode>_cube.pivot.csv is absent makes no remote call
\* (no search, add, update, move or share), leaves the catalog and the
\* group as they were, appends the series code to failed_series, raises
\* nothing and goes on to the next series.
C11_AbsentFileNoRemoteCallRecorded ==
    [][(~args.property_update_only /\ StepWithoutFile)
         => /\ NewCalls = <<>>
            /\ catalog' = catalog
            /\ group_tags' = group_tags
            /\ failed_series' = Append(failed_series, Last(printed'))
            /\ faults' = faults
            /\ pc' = "series"
            /\ s' = s + 1
            /\ outcome' = "running"]_vars

\* C11, witness: a full-publish walk has recorded a series without a file
\* and has processed a later series
C11_AbsentFileThenLaterSeries ==
    /\ ~args.property_update_only
    /\ outcome = "running"
    /\ \E k \in DOMAIN printed :
         /\ FilePath(printed[k]) \in MissingFiles
         /\ printed[k] \in Codes(failed_series)
         /\ k < Len(printed)

\* C12 (as claimed): during one call, failed_series holds the code of each
\* series at most once, and holds the code of no series whose feature
\* service item was shared.
C12_FailedOnceNeverShared ==
    run <= 1 =>
      \A p \in AllSeries :
        /\ Count(CodeAt(p), failed_series) <= 1
        /\ CodeAt(p) \in Codes(failed_series) =>
             \A id \in ItemsTitled("Feature Service", ServiceTitles(p)) :
               ~catalog[id].shared

=============================================================================
